---- MODULE Spec2Model ----
(***************************************************************************)
(* Model of proxytheus: the /metrics proxy handler (src/routes.rs), the    *)
(* AuthMechanism dispatch (src/auth/mod.rs) and the OAuth client           *)
(* credentials token cache (src/auth/oauth.rs).                            *)
(*                                                                         *)
(* Strings whose content matters (header names, header value templates,    *)
(* tokens) are sequences of one-character strings; "LF" stands for the     *)
(* line-feed byte.  Option<T> is a sequence of length 0 (None) or 1        *)
(* (Some).                                                                 *)
(***************************************************************************)
EXTENDS Integers, Sequences, FiniteSets, TLC

\* ---------------------------------------------------------------- bounds
NReq == 2
MaxTime == 1

Reqs == 1..NReq

\* ------------------------------------------------------ program constants
DefaultExpiresIn == 3600
NOT_FOUND == 404
INTERNAL_SERVER_ERROR == 500

None == <<>>
Some(x) == <<x>>
IsSome(o) == Len(o) = 1
Unwrap(o) == o[1]

\* ------------------------------------------------------------ input sets
\* Inbound requests, as the extractors of metrics() deliver them: method,
\* header map (names arrive lower-cased from the HTTP parser; a name may
\* carry several values), path already split on '/', query parameters, body.
Inbound ==
    { [method |-> "GET", path |-> <<"metrics">>, headers |-> <<>>,
       params |-> <<>>, body |-> ""],
      [method |-> "POST", path |-> <<"metrics", "sub">>,
       headers |-> << [name |-> <<"x">>, value |-> <<"o">>],
                      [name |-> <<"a", "u">>, value |-> <<"o">>],
                      [name |-> <<"a", "u">>, value |-> <<"p">>] >>,
       params |-> << <<"q", "1">> >>, body |-> "data"],
      [method |-> "GET", path |-> <<"other", "metrics">>, headers |-> <<>>,
       params |-> <<>>, body |-> ""] }

\* Configured --header-name values: "Au" is valid, "a u" is not.
HeaderNames == { <<"A", "u">>, <<"a", " ", "u">> }
\* Configured --header-value templates: "B {}".
HeaderValues == { <<"B", " ", "{", "}">> }
\* Configured --audience values (None: not given).
Audiences == { None, Some("aud") }
\* Configured --auth-url values.
AuthUrls == { "https://auth", "not a url" }
\* Configured --endpoint values, as [valid, segs] of the parsed URL.
Endpoints ==
    { [valid |-> TRUE,  segs |-> <<"suffix">>],
      [valid |-> FALSE, segs |-> <<>>] }

\* Access tokens the issuer may return; the second one contains a line feed.
Tokens == { <<"a">>, <<"a", "LF">> }
\* expires_in values the issuer may return (None: field omitted).
ExpiresIns == { None, Some(0), Some(1) }
\* Outcome of the token exchange: an error or a token response.
IssueResults ==
    { [ok |-> FALSE, access_token |-> <<>>, expires_in |-> None] } \cup
    { [ok |-> TRUE, access_token |-> t, expires_in |-> e] :
        t \in Tokens, e \in ExpiresIns }

\* Outcome of http_client.execute and of response.bytes().
UpstreamResults ==
    { [sent |-> FALSE, status |-> 0, body |-> "", bytes_ok |-> FALSE] } \cup
    { [sent |-> TRUE, status |-> s[1], body |-> s[2], bytes_ok |-> b] :
        s \in { <<200, "ok">>, <<503, "boom">> }, b \in BOOLEAN }

\* ------------------------------------------------------- string helpers
\* http::HeaderName::from_bytes accepts token characters only.
ValidNameChar(c) == c \in {"A", "a", "u", "b", "x", "-"}
ValidHeaderName(n) == Len(n) > 0 /\ \A i \in 1..Len(n) : ValidNameChar(n[i])

\* HeaderName::from_bytes normalises to lower case.
LowerChar(c) == IF c = "A" THEN "a" ELSE IF c = "B" THEN "b" ELSE c
LowerName(n) == [i \in 1..Len(n) |-> LowerChar(n[i])]

\* http::HeaderValue::from_str accepts visible ASCII and tab.
ValidValueChar(c) == c # "LF"
ValidHeaderValue(v) == \A i \in 1..Len(v) : ValidValueChar(v[i])

\* str::replace("{}", token): every non-overlapping occurrence, left to right.
RECURSIVE Replace(_, _)
Replace(template, token) ==
    IF Len(template) = 0 THEN <<>>
    ELSE IF Len(template) >= 2 /\ template[1] = "{" /\ template[2] = "}"
         THEN token \o Replace(SubSeq(template, 3, Len(template)), token)
         ELSE <<template[1]>> \o Replace(Tail(template), token)

\* HeaderMap::insert: the entries of that name are replaced by one entry.
RECURSIVE RemoveName(_, _)
RemoveName(headers, name) ==
    IF Len(headers) = 0 THEN <<>>
    ELSE IF Head(headers).name = name
         THEN RemoveName(Tail(headers), name)
         ELSE <<Head(headers)>> \o RemoveName(Tail(headers), name)

\* Mutant of HeaderInsert: the value is appended next to the existing ones.
HeaderAppend(headers, name, value) ==
    Append(headers, [name |-> name, value |-> value])

\* HeaderMap::insert: every value the name had is removed, the new one is set.
HeaderInsert(headers, name, value) ==
    Append(RemoveName(headers, name), [name |-> name, value |-> value])

\* ------------------------------------------------------------ url helpers
\* Url::path_segments_mut().extend(parts): segments "." and ".." are skipped,
\* every other one is appended after the segments the base already has.
RECURSIVE ExtendSegments(_, _)
ExtendSegments(segs, parts) ==
    IF Len(parts) = 0 THEN segs
    ELSE IF Head(parts) \in {".", ".."}
         THEN ExtendSegments(segs, Tail(parts))
         ELSE ExtendSegments(Append(segs, Head(parts)), Tail(parts))

\* Mutant of construct_url: the parts are resolved against the base as by
\* Url::join, replacing the last segment of the base.
construct_url_joining(base, parts) ==
    [valid |-> TRUE,
     segs |-> ExtendSegments(
                 IF Len(base.segs) = 0 THEN base.segs
                 ELSE SubSeq(base.segs, 1, Len(base.segs) - 1), parts)]

\* routes.rs:104-108
construct_url(base, parts) ==
    [valid |-> TRUE, segs |-> ExtendSegments(base.segs, parts)]

\* -------------------------------------------------------------- the state
VARIABLES
    auth,       \* the shared AuthMechanism behind Arc<Mutex<..>>
    endpoint,   \* SharedState.endpoint
    lock,       \* the request holding the tokio Mutex, 0 when it is free
    now,        \* OffsetDateTime::now_utc(), in seconds
    pc,         \* position of each metrics() invocation
    path,       \* the inbound path of each invocation, split on '/'
    request,    \* the outbound reqwest::Request each invocation has built
                \* (method, url, query pairs, headers, body)
    token,      \* the result of state.token() local to oauth::authorize_request
    seen,       \* the arm of the match in token() the invocation took
    issued,     \* token exchange calls made on behalf of each invocation
    sent,       \* http_client.execute calls made by each invocation
    response,   \* the value metrics() returned
    log,        \* the error! line (or panic) each invocation ended with
    parked,     \* invocations that were waiting at lock().await when a token
                \* exchange call failed
    args,       \* the parsed command line, until determine_auth consumes it
    startup,    \* position of main(): "parsed", "determined", "serving",
                \* or "aborted" after a panic
    http_client \* the reqwest::Client main() builds for the handlers

vars == <<auth, endpoint, lock, now, pc, path, request, token, seen, issued, sent,
          response, log, parked, args, startup, http_client>>

\* What main() sets up before serving; the handlers never write it.
config == <<args, startup, http_client>>

\* AuthMechanism values determine_auth can build.
AuthNone == [kind |-> "None"]
TlsNew(cert, key) == [kind |-> "Tls", cert |-> cert, key |-> key]
AuthTls == TlsNew("CERT", "KEY")
AuthOAuth(name, value, url, aud) ==
    [kind |-> "OAuthClientCredentials",
     client_id |-> "id",
     client_secret |-> "secret",
     auth_url |-> url,
     token_url |-> "https://token",
     audience |-> aud,
     header_name |-> name,
     header_value |-> value,
     token |-> None]

AuthMechanisms ==
    {AuthNone, AuthTls} \cup
    { AuthOAuth(n, v, u, a) :
        n \in HeaderNames, v \in HeaderValues, u \in AuthUrls, a \in Audiences }

IsOAuth == auth.kind = "OAuthClientCredentials"

\* Total number of token exchange calls made so far.
RECURSIVE SumTo(_, _)
SumTo(f, n) == IF n = 0 THEN 0 ELSE f[n] + SumTo(f, n - 1)
IssueCalls == SumTo(issued, NReq)
UpstreamCalls == SumTo(sent, NReq)

\* main.rs:155-164  the client carries the TLS identity, if there is one.
BuildClient(a) ==
    [identity |-> IF a.kind = "Tls"
                    THEN Some([cert |-> a.cert, key |-> a.key])
                    ELSE None]

Init ==
    /\ auth \in AuthMechanisms
    /\ args = None
    /\ startup = "serving"
    /\ http_client = BuildClient(auth)
    /\ endpoint \in Endpoints
    /\ lock = 0
    /\ now = 0
    /\ pc = [r \in Reqs |-> "idle"]
    /\ path = [r \in Reqs |-> <<>>]
    /\ request = [r \in Reqs |-> None]
    /\ token = [r \in Reqs |-> None]
    /\ seen = [r \in Reqs |-> "-"]
    /\ issued = [r \in Reqs |-> 0]
    /\ sent = [r \in Reqs |-> 0]
    /\ response = [r \in Reqs |-> None]
    /\ log = [r \in Reqs |-> ""]
    /\ parked = {}

\* ------------------------------------------------------ metrics(): routing
\* Mutant of RouteMatches: every path is proxied.
RouteMatchesAny(parts) == TRUE

\* routes.rs:50  parts.len() < 1 || parts[0] != "metrics"
RouteMatches(parts) == Len(parts) >= 1 /\ parts[1] = "metrics"

\* routes.rs:54-60
Destination(parts) ==
    IF Len(parts) = 1 THEN endpoint ELSE construct_url(endpoint, Tail(parts))

\* metrics() returns Err(status): the invocation is over, its request dropped.
Fail(r, status, line) ==
    /\ pc' = [pc EXCEPT ![r] = "done"]
    /\ response' = [response EXCEPT ![r] = Some([status |-> status, body |-> ""])]
    /\ log' = [log EXCEPT ![r] = line]
    /\ request' = [request EXCEPT ![r] = None]

\* metrics() unwinds from a panic: no value is returned.
Panic(r) ==
    /\ pc' = [pc EXCEPT ![r] = "panicked"]
    /\ log' = [log EXCEPT ![r] = "panic"]
    /\ request' = [request EXCEPT ![r] = None]
    /\ UNCHANGED response

\* routes.rs:43-72: route check, destination, request build; then the
\* invocation waits at state.auth.lock().await.  Invocations are numbered in
\* the order in which they start.
Receive(r, method, headers, p, params, body) ==
    /\ pc[r] = "idle"
    /\ \A q \in Reqs : q < r => pc[q] # "idle"
    /\ path' = [path EXCEPT ![r] = p]
    /\ IF ~RouteMatches(p)
         THEN Fail(r, NOT_FOUND, "Invalid path")
       ELSE IF Len(p) > 1 /\ ~endpoint.valid
         THEN Panic(r)                      \* Url::parse(base).unwrap()
       ELSE IF ~Destination(p).valid
         THEN Fail(r, INTERNAL_SERVER_ERROR, "Error building request")
       ELSE /\ pc' = [pc EXCEPT ![r] = "waiting"]
            /\ request' = [request EXCEPT ![r] =
                    Some([method |-> method, url |-> Destination(p),
                          query |-> params, headers |-> headers,
                          body |-> body])]
            /\ UNCHANGED <<response, log>>
    /\ UNCHANGED <<auth, endpoint, lock, now, token, seen, issued, sent, parked>>
    /\ UNCHANGED config

\* ----------------------------------------------------- the authorization lock
\* Mutant of CanAcquire: the lock is handed out while it is held.
CanAcquireHeld(r) == TRUE

\* routes.rs:75  state.auth.lock().await completes only when the mutex is free.
CanAcquire(r) == lock = 0

Acquire(r) ==
    /\ pc[r] = "waiting"
    /\ CanAcquire(r)
    /\ lock' = r
    /\ pc' = [pc EXCEPT ![r] = "locked"]
    /\ UNCHANGED <<auth, endpoint, now, path, request, token, seen, issued,
                   sent, response, log, parked>>
    /\ UNCHANGED config

\* Mutant of LockReleased: the guard lives to the end of metrics().
LockKept(r) == r

\* routes.rs:84  drop(auth); an early return or an unwinding panic drops the
\* guard as well.
LockReleased(r) == 0

\* Mutant of AuthorizeFailed: the error is logged but not returned, and the
\* request goes on to be sent.
AuthorizeFailedIgnored(r) ==
    /\ pc' = [pc EXCEPT ![r] = "authorized"]
    /\ log' = [log EXCEPT ![r] = "Error authorizing request"]
    /\ lock' = LockReleased(r)
    /\ UNCHANGED <<request, response>>

\* Mutant of AuthorizeFailed: the error is also returned to every invocation
\* waiting for the lock.
AuthorizeFailedForWaiters(r) ==
    LET hit == {r} \cup { q \in Reqs : pc[q] = "waiting" } IN
    /\ pc' = [q \in Reqs |-> IF q \in hit THEN "done" ELSE pc[q]]
    /\ response' = [q \in Reqs |->
            IF q \in hit
              THEN Some([status |-> INTERNAL_SERVER_ERROR, body |-> ""])
              ELSE response[q]]
    /\ log' = [q \in Reqs |->
            IF q \in hit THEN "Error authorizing request" ELSE log[q]]
    /\ request' = [q \in Reqs |-> IF q \in hit THEN None ELSE request[q]]
    /\ lock' = LockReleased(r)

\* routes.rs:76-81  authorize_request returned Err: the error is logged and
\* `?` returns 500 from metrics(), dropping the guard.
AuthorizeFailed(r) ==
    /\ Fail(r, INTERNAL_SERVER_ERROR, "Error authorizing request")
    /\ lock' = LockReleased(r)

\* authorize_request panicked while the guard was held.
AuthorizePanicked(r) ==
    /\ Panic(r)
    /\ lock' = LockReleased(r)

\* routes.rs:76-84  authorize_request returned Ok(()) leaving `req` as the
\* request; the guard is dropped before the send.
AuthorizeSucceeded(r, req) ==
    /\ pc' = [pc EXCEPT ![r] = "authorized"]
    /\ request' = [request EXCEPT ![r] = Some(req)]
    /\ lock' = LockReleased(r)
    /\ UNCHANGED <<response, log>>

\* ------------------------------------------------------- oauth.rs: token()
\* Mutant of TokenIsFresh: a token is still used at its expiry instant.
TokenIsFreshAtExpiry(cached) == cached.expires_at >= now

\* Mutant of TokenIsFresh: a cached token is used whatever its expiry.
TokenIsFreshAlways(cached) == TRUE

\* oauth.rs:98  expires_at > now_utc()
TokenIsFresh(cached) == cached.expires_at > now

\* Mutant of NewCachedToken: an omitted expires_in counts as 0.
NewCachedTokenNoDefault(res) ==
    [token |-> res.access_token,
     expires_at |-> now + (IF IsSome(res.expires_in)
                             THEN Unwrap(res.expires_in)
                             ELSE 0)]

\* oauth.rs:79-87  the CachedToken built from a token response.
NewCachedToken(res) ==
    [token |-> res.access_token,
     expires_at |-> now + (IF IsSome(res.expires_in)
                             THEN Unwrap(res.expires_in)
                             ELSE DefaultExpiresIn)]

\* Mutant of AuthAfterIssue: a failed exchange clears the cached token.
AuthAfterIssueClearing(a, res) ==
    IF res.ok THEN [a EXCEPT !.token = Some(NewCachedToken(res))]
    ELSE [a EXCEPT !.token = None]

\* Mutant of AuthAfterIssue: the state is rebuilt around the new token and
\* the audience is lost.
AuthAfterIssueRebuilding(a, res) ==
    IF res.ok
      THEN [AuthOAuth(a.header_name, a.header_value, a.auth_url, None)
                EXCEPT !.token = Some(NewCachedToken(res))]
      ELSE a

\* oauth.rs:99-103  the state after generate_token returned `res`.
AuthAfterIssue(a, res) ==
    IF res.ok THEN [a EXCEPT !.token = Some(NewCachedToken(res))] ELSE a

UrlValid(u) == u # "not a url"

\* oauth.rs:116-124  with the token in hand: header name, header value,
\* insert.  The name is unwrapped, the value is propagated with `?`.
AuthorizeWithToken(r, t) ==
    /\ token' = [token EXCEPT ![r] = Some(t)]
    /\ IF ~ValidHeaderName(auth.header_name)
         THEN AuthorizePanicked(r)
       ELSE IF ~ValidHeaderValue(Replace(auth.header_value, t))
         THEN AuthorizeFailed(r)
       ELSE AuthorizeSucceeded(r,
                [Unwrap(request[r]) EXCEPT !.headers =
                    HeaderInsert(@, LowerName(auth.header_name),
                                 Replace(auth.header_value, t))])

\* Mutant of AuthorizeNone: the proxy stamps the request with a header.
AuthorizeNoneStamping(req) ==
    [req EXCEPT !.headers =
        HeaderInsert(@, <<"v", "i", "a">>, <<"p", "r", "o", "x", "y">>)]

\* mod.rs:42  AuthMechanism::None => ()
AuthorizeNone(req) == req

\* Mutant of AuthorizeTls: the certificate and the key are forwarded as
\* headers on every request.
AuthorizeTlsForwarding(req) ==
    [req EXCEPT !.headers =
        HeaderInsert(
            HeaderInsert(@, <<"x-forwarded-client-cert">>, <<auth.cert>>),
            <<"x-forwarded-client-key">>, <<auth.key>>)]

\* mod.rs:47  AuthMechanism::Tls(_) => ()
AuthorizeTls(req) == req

\* mod.rs:40-50 and oauth.rs:93-105 up to the token exchange call.
Authorize(r) ==
    /\ pc[r] = "locked"
    /\ IF auth.kind = "None"
         THEN /\ AuthorizeSucceeded(r, AuthorizeNone(Unwrap(request[r])))
              /\ UNCHANGED <<token, seen, issued>>
       ELSE IF auth.kind = "Tls"
         THEN /\ AuthorizeSucceeded(r, AuthorizeTls(Unwrap(request[r])))
              /\ UNCHANGED <<token, seen, issued>>
       ELSE IF IsSome(auth.token) /\ TokenIsFresh(Unwrap(auth.token))
         THEN /\ seen' = [seen EXCEPT ![r] = "hit"]
              /\ AuthorizeWithToken(r, Unwrap(auth.token).token)
              /\ UNCHANGED issued
       ELSE /\ seen' = [seen EXCEPT ![r] =
                    IF IsSome(auth.token) THEN "expired" ELSE "absent"]
            /\ IF ~UrlValid(auth.auth_url)          \* AuthUrl::new(..)?
                 THEN AuthorizeFailed(r) /\ UNCHANGED <<token, issued>>
               ELSE IF auth.audience = None         \* audience.clone().unwrap()
                 THEN AuthorizePanicked(r) /\ UNCHANGED <<token, issued>>
               ELSE /\ pc' = [pc EXCEPT ![r] = "issuing"]
                    /\ issued' = [issued EXCEPT ![r] = @ + 1]
                    /\ UNCHANGED <<lock, request, token, response, log>>
    /\ UNCHANGED <<auth, endpoint, now, path, sent, parked>>
    /\ UNCHANGED config

\* oauth.rs:77-103  the token exchange call returns.
IssueReturn(r, res) ==
    /\ pc[r] = "issuing"
    /\ auth' = AuthAfterIssue(auth, res)
    /\ IF res.ok
         THEN AuthorizeWithToken(r, res.access_token)
         ELSE AuthorizeFailed(r) /\ UNCHANGED token
    /\ parked' = IF res.ok THEN parked
                 ELSE parked \cup { q \in Reqs : pc[q] = "waiting" }
    /\ UNCHANGED <<endpoint, now, path, seen, issued, sent>>
    /\ UNCHANGED config

\* ------------------------------------------------------ metrics(): forward
\* routes.rs:87  http_client.execute(request) starts.
Send(r) ==
    /\ pc[r] = "authorized"
    /\ pc' = [pc EXCEPT ![r] = "forwarding"]
    /\ sent' = [sent EXCEPT ![r] = @ + 1]
    /\ UNCHANGED <<auth, endpoint, lock, now, path, request, token, seen,
                   issued, response, log, parked>>
    /\ UNCHANGED config

\* Mutant of Mirror: an upstream error status is answered with 500.
MirrorErrorAsServerError(res) ==
    IF res.status >= 400
      THEN [status |-> INTERNAL_SERVER_ERROR, body |-> ""]
      ELSE [status |-> res.status, body |-> res.body]

\* routes.rs:88-91  the Response built from the upstream status and body.
Mirror(res) == [status |-> res.status, body |-> res.body]

\* routes.rs:87-96  execute returns; the body is read and mirrored.
UpstreamReturn(r, res) ==
    /\ pc[r] = "forwarding"
    /\ IF ~res.sent
         THEN Fail(r, INTERNAL_SERVER_ERROR, "Error sending request")
       ELSE IF ~res.bytes_ok
         THEN Panic(r)                      \* response.bytes().await.unwrap()
       ELSE /\ pc' = [pc EXCEPT ![r] = "done"]
            /\ response' = [response EXCEPT ![r] = Some(Mirror(res))]
            /\ request' = [request EXCEPT ![r] = None]
            /\ UNCHANGED log
    /\ UNCHANGED <<auth, endpoint, lock, now, path, token, seen, issued, sent,
                   parked>>
    /\ UNCHANGED config

\* The wall clock advances.
Tick ==
    /\ now < MaxTime
    /\ now' = now + 1
    /\ UNCHANGED <<auth, endpoint, lock, pc, path, request, token, seen,
                   issued, sent, response, log, parked>>
    /\ UNCHANGED config

Next ==
    \/ \E r \in Reqs, i \in Inbound :
            Receive(r, i.method, i.headers, i.path, i.params, i.body)
    \/ \E r \in Reqs : Acquire(r)
    \/ \E r \in Reqs : Authorize(r)
    \/ \E r \in Reqs, res \in IssueResults : IssueReturn(r, res)
    \/ \E r \in Reqs : Send(r)
    \/ \E r \in Reqs, res \in UpstreamResults : UpstreamReturn(r, res)
    \/ Tick

Spec == Init /\ [][Next]_vars

\* The handlers under a fair scheduler: a handler that can run its next
\* step does so, a token exchange or upstream call in flight returns, and the
\* tokio Mutex serves every waiter.  Arrivals and the clock are not forced.
FairSpec ==
    /\ Spec
    /\ \A r \in Reqs :
           /\ SF_vars(Acquire(r))
           /\ WF_vars(Authorize(r))
           /\ WF_vars(\E res \in IssueResults : IssueReturn(r, res))
           /\ WF_vars(Send(r))
           /\ WF_vars(\E res \in UpstreamResults : UpstreamReturn(r, res))

\* ------------------------------------------------------- main(): startup
\* Files --cert-file / --key-file may name; "missing" cannot be read.
CertFiles == { "cert.pem", "missing" }
KeyFiles == { "key.pem", "missing" }

\* fs::read_to_string(path): the content, or None for an io::Error.
ReadFile(f) ==
    IF f = "cert.pem" THEN Some("CERT")
    ELSE IF f = "key.pem" THEN Some("KEY")
    ELSE None

Opt(S) == {None} \cup { Some(x) : x \in S }

\* The credential arguments of the command line, each present or absent.
ArgsSet ==
    [client_id : Opt({"id"}), client_secret : Opt({"secret"}),
     auth_url : Opt(AuthUrls), token_url : Opt({"https://token"}),
     audience : Audiences,
     header_name : HeaderNames, header_value : HeaderValues,
     cert : Opt({"CERT"}), cert_file : Opt(CertFiles),
     key : Opt({"KEY"}), key_file : Opt(KeyFiles)]

\* The outcome of determine_auth when it panics.
Panicked == [kind |-> "panic"]

\* main.rs:81-138  the arms of the match, tried in order.
determine_auth(a) ==
    IF /\ a.client_id = None /\ a.client_secret = None /\ a.auth_url = None
       /\ a.token_url = None /\ a.audience = None /\ a.cert = None
       /\ a.cert_file = None /\ a.key = None /\ a.key_file = None
      THEN AuthNone
    ELSE IF /\ IsSome(a.client_id) /\ IsSome(a.client_secret)
            /\ IsSome(a.auth_url) /\ IsSome(a.token_url)
      THEN AuthOAuth(a.header_name, a.header_value, Unwrap(a.auth_url),
                     a.audience)
    ELSE IF IsSome(a.cert) /\ IsSome(a.key)
      THEN TlsNew(Unwrap(a.cert), Unwrap(a.key))
    ELSE IF IsSome(a.cert_file) /\ IsSome(a.key_file)
      THEN IF /\ IsSome(ReadFile(Unwrap(a.cert_file)))
              /\ IsSome(ReadFile(Unwrap(a.key_file)))
             THEN TlsNew(Unwrap(ReadFile(Unwrap(a.cert_file))),
                         Unwrap(ReadFile(Unwrap(a.key_file))))
             ELSE Panicked              \* .expect("Failed to read ... file.")
    ELSE Panicked                       \* panic!("Invalid arguments")

\* The handler state main() starts from: nothing received, lock free.
NoRequests ==
    /\ lock = 0
    /\ now = 0
    /\ pc = [r \in Reqs |-> "idle"]
    /\ path = [r \in Reqs |-> <<>>]
    /\ request = [r \in Reqs |-> None]
    /\ token = [r \in Reqs |-> None]
    /\ seen = [r \in Reqs |-> "-"]
    /\ issued = [r \in Reqs |-> 0]
    /\ sent = [r \in Reqs |-> 0]
    /\ response = [r \in Reqs |-> None]
    /\ log = [r \in Reqs |-> ""]
    /\ parked = {}

\* main.rs:143  Args::parse() has returned.
InitStartup ==
    /\ args \in { Some(a) : a \in ArgsSet }
    /\ startup = "parsed"
    /\ auth = None
    /\ http_client = None
    /\ endpoint \in Endpoints
    /\ NoRequests

handlers == <<lock, now, pc, path, request, token, seen, issued, sent,
              response, log, parked>>

\* main.rs:153  let auth = determine_auth(args);
DetermineAuth ==
    /\ startup = "parsed"
    /\ LET m == determine_auth(Unwrap(args)) IN
       IF m = Panicked
         THEN startup' = "aborted" /\ UNCHANGED auth
         ELSE startup' = "determined" /\ auth' = m
    /\ args' = None
    /\ UNCHANGED <<endpoint, http_client, handlers>>

\* main.rs:155-175  the client and the shared state are built.
MakeClient ==
    /\ startup = "determined"
    /\ http_client' = BuildClient(auth)
    /\ startup' = "serving"
    /\ UNCHANGED <<auth, args, endpoint, handlers>>

NextStartup == DetermineAuth \/ MakeClient

StartupSpec == InitStartup /\ [][NextStartup]_vars

\* ----------------------------------------- metrics(): destination only
\* --endpoint values for the destination: no path, a path suffix, a path
\* suffix with a trailing slash, and a string that is not a URL.
UrlBases ==
    { [valid |-> TRUE, segs |-> <<>>],
      [valid |-> TRUE, segs |-> <<"suffix">>],
      [valid |-> TRUE, segs |-> <<"suffix", "">>],
      [valid |-> FALSE, segs |-> <<>>] }

\* Inbound paths of up to MaxSegs segments.
MaxSegs == 3
Segments == { "metrics", "sub", "path", ".." }
UrlPaths == UNION { [1..n -> Segments] : n \in 1..MaxSegs }

InitUrl ==
    /\ auth = AuthNone
    /\ args = None
    /\ startup = "serving"
    /\ http_client = BuildClient(auth)
    /\ endpoint \in UrlBases
    /\ NoRequests

\* One GET with path p arrives; routes.rs:43-72 composes its destination.
NextUrl == \E p \in UrlPaths : Receive(1, "GET", <<>>, p, <<>>, "")

UrlSpec == InitUrl /\ [][NextUrl]_vars

\* ================================================================ claims
AuthorizeError == "Error authorizing request"
InAuthorize(r) == pc[r] \in {"locked", "issuing"}
Status(r) == Unwrap(response[r]).status

\* The header oauth::authorize_request writes for token t.
TokenHeader(t) ==
    [name |-> LowerName(auth.header_name),
     value |-> Replace(auth.header_value, t)]

\* The request of r carries that header exactly once.
CarriesTokenHeader(r, t) ==
    /\ IsSome(request[r])
    /\ LET hs == Unwrap(request[r]).headers IN
       Cardinality({ i \in 1..Len(hs) : hs[i].name = TokenHeader(t).name }) = 1
       /\ \E i \in 1..Len(hs) : hs[i] = TokenHeader(t)

\* ---------------------------------------------------------------------- C1
\* C1: N concurrent /metrics requests against an OAuth mechanism with an
\* empty cache make exactly one token exchange call in total and are all
\* authorized (each carries the token header when forwarded).  Stated for
\* the scenario of the claim: the URLs and the header name are valid, no
\* exchange call fails, the token fits the header and no request finds the
\* cached token expired.
C1_Entered == { r \in Reqs : seen[r] # "-" }

C1_Scenario ==
    /\ IsOAuth
    /\ C1_Entered # {}
    /\ \A r \in Reqs : pc[r] \notin {"waiting", "locked", "issuing"}
    /\ UrlValid(auth.auth_url)
    /\ ValidHeaderName(auth.header_name)
    /\ \A r \in C1_Entered :
        /\ seen[r] # "expired"
        /\ issued[r] = 1 => IsSome(token[r])
        /\ IsSome(token[r]) => ValidHeaderValue(TokenHeader(Unwrap(token[r])).value)

C1_AllAuthorized ==
    /\ IssueCalls = 1
    /\ \A r \in C1_Entered :
        /\ IsSome(token[r])
        /\ log[r] \notin {AuthorizeError, "panic"} \/ sent[r] = 1
        /\ pc[r] \in {"authorized", "forwarding"} =>
                CarriesTokenHeader(r, Unwrap(token[r]))

\* C1: in that scenario, once every request has been through authorize,
\* exactly one token exchange call was made and every request was authorized.
C1_OneIssuanceForAll == C1_Scenario => C1_AllAuthorized

\* C1 restricted to a mechanism configured with an audience.
C1_OneIssuanceWithAudience ==
    (C1_Scenario /\ auth.audience # None) => C1_AllAuthorized

\* ---------------------------------------------------------------------- C2
\* C2: with a cached token of expiry T, an authorize at t < T makes no
\* exchange call and uses the cached token; an authorize at t >= T makes
\* exactly one exchange call and, when it succeeds, the cached token becomes
\* the newly issued one.
C2_CheckStep(r) ==
    (pc[r] = "locked" /\ pc'[r] # "locked" /\ IsOAuth /\ IsSome(auth.token)) =>
        IF now < Unwrap(auth.token).expires_at
          THEN /\ issued' = issued
               /\ auth' = auth
               /\ token'[r] = Some(Unwrap(auth.token).token)
          ELSE /\ issued' = [issued EXCEPT ![r] = 1]
               /\ pc'[r] = "issuing"
               /\ auth' = auth

C2_ReturnStep(r) ==
    (pc[r] = "issuing" /\ pc'[r] # "issuing") =>
        /\ issued' = issued
        /\ IsSome(token'[r]) =>
             /\ IsSome(auth'.token)
             /\ Unwrap(auth'.token).token = Unwrap(token'[r])
             /\ Unwrap(auth'.token).expires_at >= now

\* C2: every token check with a cached token takes the branch its expiry
\* decides (t < T: cached token, no call; t >= T: one call), a successful
\* call stores the issued token, and no request makes a second call.
C2_TokenReuse ==
    /\ [][\A r \in Reqs : C2_CheckStep(r) /\ C2_ReturnStep(r)]_vars
    /\ [](\A r \in Reqs : issued[r] <= 1)

\* C2 witness: a request found the token of an earlier request expired, exchanged once
\* and replaced it with a different one.
C2_Witness ==
    \E r, q \in Reqs :
        /\ seen[r] = "expired" /\ issued[r] = 1 /\ IsSome(token[r])
        /\ Unwrap(auth.token).token = Unwrap(token[r])
        /\ seen[q] = "absent" /\ IsSome(token[q]) /\ token[q] # token[r]

\* C2, the case t < T: a request was served from the cache before the expiry, without a call.
C2_WitnessHit ==
    \E r \in Reqs :
        /\ seen[r] = "hit" /\ issued[r] = 0 /\ IsSome(token[r])
        /\ now < Unwrap(auth.token).expires_at

\* ---------------------------------------------------------------------- C3
\* C3: at most one invocation is inside authorize, holding the lock; so at
\* most one token exchange call is in flight; the cached token is read and
\* written only by the invocation holding the lock.
C3_Exclusive ==
    /\ Cardinality({ r \in Reqs : InAuthorize(r) }) <= 1
    /\ Cardinality({ r \in Reqs : pc[r] = "issuing" }) <= 1
    /\ \A r \in Reqs : InAuthorize(r) <=> lock = r

C3_AccessStep ==
    /\ \A r \in Reqs : (seen'[r] # seen[r] \/ token'[r] # token[r]) => lock = r
    /\ auth' # auth => lock # 0 /\ pc[lock] = "issuing" /\ pc'[lock] # "issuing"

\* C3: the lock is exclusive in every state, and every step that reads or
\* writes the cached token is taken by the invocation holding the lock.
C3_OneAuthorizer == []C3_Exclusive /\ [][C3_AccessStep]_vars

\* C3 witness: one invocation is exchanging while another waits for the lock.
C3_Witness ==
    \E r, q \in Reqs : pc[r] = "issuing" /\ lock = r /\ pc[q] = "waiting"

\* ---------------------------------------------------------------------- C4
\* C4: no invocation holds the lock while it forwards; several invocations
\* forward at once; a forwarding invocation does not keep a waiting one from
\* acquiring the lock.
C4_LockFreeForwarding ==
    /\ \A r \in Reqs : pc[r] \in {"authorized", "forwarding"} => lock # r
    /\ \A r, q \in Reqs :
        (pc[r] = "forwarding" /\ pc[q] = "waiting"
            /\ \A o \in Reqs : ~InAuthorize(o)) => ENABLED Acquire(q)

\* C4 witness: two invocations forward at the same time and the lock is free.
C4_Witness ==
    \E r, q \in Reqs :
        r # q /\ pc[r] = "forwarding" /\ pc[q] = "forwarding" /\ lock = 0

\* ---------------------------------------------------------------------- C5
\* C5: when the token exchange call fails, token() returns an error and the
\* authorizer is exactly what it was before the call: the cached token
\* (absent or present with its expiry) and every other field.
C5_FailStep(r) ==
    (pc[r] = "issuing" /\ pc'[r] # "issuing" /\ token'[r] = None) =>
        /\ auth' = auth
        /\ log'[r] = AuthorizeError
        /\ response'[r] = Some([status |-> INTERNAL_SERVER_ERROR, body |-> ""])

\* C5: every step in which a token exchange call fails leaves the authorizer
\* unchanged and ends the request with the authorization error.
C5_FailureKeepsCache == [][\A r \in Reqs : C5_FailStep(r)]_vars

\* C5 witness: an exchange failed while an expired token was cached, and the
\* token is still there.
C5_Witness ==
    \E r \in Reqs :
        /\ seen[r] = "expired" /\ issued[r] = 1 /\ token[r] = None
        /\ pc[r] = "done" /\ IsSome(auth.token)

\* ---------------------------------------------------------------------- C6
\* A token exchange call made for r returns an error in this step.
C6_ExchangeFails(r) == pc[r] = "issuing" /\ pc'[r] # "issuing" /\ token'[r] = None

ServerError == Some([status |-> INTERNAL_SERVER_ERROR, body |-> ""])

\* C6 as stated: a failed token exchange call is an error for the request
\* that triggered it and for every request that was waiting for the lock at
\* that moment (none of those is authorized; each ends with 500).
C6_FailureReachesWaiters ==
    \A q \in parked :
        /\ pc[q] \notin {"authorized", "forwarding"}
        /\ pc[q] = "done" => response[q] = ServerError

\* C6 as amended: a failed token exchange call is an error (500) for the
\* request that triggered it and changes no other request; a request that
\* was waiting for the lock then runs its own token check, and a request
\* ends with an authorization error only for a cause of its own (its own
\* exchange call failed, its header value was invalid, or the configured
\* URL is invalid so that no call is made).
C6_FailStep ==
    \A r \in Reqs : C6_ExchangeFails(r) =>
        /\ pc'[r] = "done" /\ response'[r] = ServerError
        /\ \A q \in Reqs \ {r} :
            /\ pc'[q] = pc[q] /\ response'[q] = response[q]
            /\ log'[q] = log[q] /\ request'[q] = request[q]

C6_OwnCause ==
    \A q \in Reqs :
        /\ log[q] = AuthorizeError =>
            \/ issued[q] = 1 /\ token[q] = None
            \/ IsSome(token[q])
                 /\ ~ValidHeaderValue(TokenHeader(Unwrap(token[q])).value)
            \/ issued[q] = 0 /\ token[q] = None /\ ~UrlValid(auth.auth_url)
        /\ (q \in parked /\ pc[q] \notin {"waiting", "locked"}) => seen[q] # "-"

\* C6 as amended: the failing step touches the triggering request only, and
\* every authorization error has a cause of the request's own.
C6_FailureReachesTriggerOnly == [][C6_FailStep]_vars /\ []C6_OwnCause

\* C6 witness: r's exchange failed while q waited; q then made its own
\* exchange call and went on to forward.
C6_Witness ==
    \E r, q \in Reqs :
        /\ log[r] = AuthorizeError /\ issued[r] = 1 /\ token[r] = None
        /\ q \in parked /\ issued[q] = 1 /\ pc[q] = "forwarding"

\* ---------------------------------------------------------------------- C7
\* C7: the upstream is contacted for a request only after authorize returned
\* success for it, and at most once; when authorize returns an error the
\* request ends with 500 and the upstream is never contacted for it.
C7_State ==
    \A r \in Reqs :
        /\ sent[r] <= 1
        /\ sent[r] = 1 =>
            /\ pc[r] \in {"forwarding", "done", "panicked"}
            /\ log[r] # AuthorizeError
            /\ IsOAuth => IsSome(token[r])
        /\ log[r] = AuthorizeError =>
            pc[r] = "done" /\ response[r] = ServerError /\ sent[r] = 0

C7_Step ==
    \A r \in Reqs :
        /\ sent'[r] # sent[r] =>
            /\ pc[r] = "authorized" /\ log[r] = ""
            /\ sent[r] = 0 /\ sent'[r] = 1
            /\ IsOAuth => CarriesTokenHeader(r, Unwrap(token[r]))
        /\ (pc'[r] = "authorized" /\ pc[r] # "authorized") =>
            InAuthorize(r) /\ log'[r] = ""

\* C7: the upstream call of a request follows its successful authorize, is
\* made at most once, and is never made after an authorization error.
C7_SendAfterAuthorize == []C7_State /\ [][C7_Step]_vars

\* C7 witness: one request failed in authorize and was not sent; another was authorized,
\* sent once and mirrored.
C7_Witness ==
    \E r, q \in Reqs :
        /\ log[r] = AuthorizeError /\ sent[r] = 0 /\ response[r] = ServerError
        /\ sent[q] = 1 /\ pc[q] = "done" /\ log[q] = "" /\ Status(q) = 200

\* ---------------------------------------------------------------------- C8
\* C8: a request whose first path segment is not `metrics` ends with 404:
\* no outbound request is built, the lock is not acquired, authorize and the
\* token exchange are not invoked, the upstream is not contacted and the
\* cached token is unchanged.
C8_State ==
    \A r \in Reqs :
        (pc[r] # "idle" /\ (Len(path[r]) = 0 \/ path[r][1] # "metrics")) =>
            /\ pc[r] = "done"
            /\ response[r] = Some([status |-> NOT_FOUND, body |-> ""])
            /\ request[r] = None /\ lock # r
            /\ seen[r] = "-" /\ token[r] = None
            /\ issued[r] = 0 /\ sent[r] = 0

C8_Step ==
    \A r \in Reqs :
        (pc[r] = "idle" /\ pc'[r] # "idle"
            /\ (Len(path'[r]) = 0 \/ path'[r][1] # "metrics")) =>
                /\ auth' = auth /\ lock' = lock
                /\ issued' = issued /\ sent' = sent

\* C8: a request to another path ends with 404 in one step that touches
\* neither the lock, the authorizer, the token exchange nor the upstream.
C8_RouteGate == []C8_State /\ [][C8_Step]_vars

\* C8 witness: a request to another path got 404 while a token was cached.
C8_Witness ==
    \E r \in Reqs :
        /\ path[r] = <<"other", "metrics">> /\ pc[r] = "done"
        /\ Status(r) = NOT_FOUND
        /\ IsOAuth /\ IsSome(auth.token)

\* ---------------------------------------------------------------------- C9
\* C9: every failure of a metrics() invocation is turned into an HTTP status
\* response, 404 or 500; none ends the invocation without a response.
C9_EveryFailureAnswered ==
    \A r \in Reqs :
        /\ pc[r] # "panicked"
        /\ (pc[r] = "done" /\ log[r] # "") =>
            /\ IsSome(response[r])
            /\ Status(r) \in {NOT_FOUND, INTERNAL_SERVER_ERROR}

\* --------------------------------------------------------------------- C10
\* C10: OAuth authorize with an invalid configured header name, or with a
\* header value that is invalid once the token is substituted, returns an
\* authorization error for that request (500, nothing sent); it does
\* nothing else.
C10_InvalidHeader(r) ==
    /\ IsOAuth /\ IsSome(token[r]) /\ ~InAuthorize(r)
    /\ \/ ~ValidHeaderName(auth.header_name)
       \/ ~ValidHeaderValue(TokenHeader(Unwrap(token[r])).value)

\* C10: a request whose header name or substituted header value is invalid
\* ends with the authorization error.
C10_InvalidHeaderIsError ==
    \A r \in Reqs : C10_InvalidHeader(r) =>
        /\ pc[r] = "done" /\ log[r] = AuthorizeError
        /\ response[r] = ServerError /\ sent[r] = 0

\* C10, the part about the header value alone, the name being valid.
C10_InvalidValueIsError ==
    \A r \in Reqs :
        (C10_InvalidHeader(r) /\ ValidHeaderName(auth.header_name)) =>
            /\ pc[r] = "done" /\ log[r] = AuthorizeError
            /\ response[r] = ServerError /\ sent[r] = 0

\* --------------------------------------------------------------------- C11
\* C11: whenever the upstream call returns a response with status s and body
\* b, for any s (503 included), the proxy's response has status s and body b;
\* an upstream error status is not turned into a 500.
C11_MirrorStep ==
    \A r \in Reqs, res \in UpstreamResults :
        (res.sent /\ res.bytes_ok /\ UpstreamReturn(r, res)) =>
            /\ pc'[r] = "done"
            /\ response'[r] = Some([status |-> res.status, body |-> res.body])
            /\ log'[r] = ""

C11_UpstreamMirrored == [][C11_MirrorStep]_vars

\* C11 witness: an upstream 503 with body "boom" was mirrored.
C11_Witness ==
    \E r \in Reqs :
        /\ pc[r] = "done" /\ sent[r] = 1 /\ log[r] = ""
        /\ response[r] = Some([status |-> 503, body |-> "boom"])

\* --------------------------------------------------------------------- C12
\* The headers of hs whose name is not n.
C12_Others(hs, n) == SelectSeq(hs, LAMBDA h : h.name # n)

\* The values hs has under the name n.
C12_Values(hs, n) == { hs[i].value : i \in { j \in 1..Len(hs) : hs[j].name = n } }

C12_Count(hs, n) == Cardinality({ i \in 1..Len(hs) : hs[i].name = n })

\* A step in which oauth::authorize_request returns Ok to r.
C12_AuthorizedStep(r) ==
    IsOAuth /\ InAuthorize(r) /\ pc'[r] = "authorized"

C12_HeaderStep ==
    \A r \in Reqs :
        C12_AuthorizedStep(r) =>
            LET old == Unwrap(request[r])
                new == Unwrap(request'[r])
                n == LowerName(auth.header_name)
            IN  /\ IsSome(token'[r])
                /\ C12_Count(new.headers, n) = 1
                /\ C12_Values(new.headers, n) =
                       { Replace(auth.header_value, Unwrap(token'[r])) }
                /\ C12_Others(new.headers, n) = C12_Others(old.headers, n)
                /\ [new EXCEPT !.headers = <<>>] = [old EXCEPT !.headers = <<>>]

\* C12: after every successful OAuth authorize the request carries exactly
\* one header with the configured name, its value is the template with `{}`
\* replaced by the token returned for that call, a header of that name already
\* on the request is overwritten, and all other headers are unchanged.
C12_HeaderWritten == [][C12_HeaderStep]_vars

\* C12 witness: a request that arrived with two values under the configured
\* name and one other header was authorized with a token.
C12_Witness ==
    \E r \in Reqs :
        /\ IsOAuth /\ pc[r] = "authorized" /\ IsSome(token[r])
        /\ path[r] = <<"metrics", "sub">>
        /\ Unwrap(request[r]).headers =
               << [name |-> <<"x">>, value |-> <<"o">>],
                  TokenHeader(Unwrap(token[r])) >>

\* --------------------------------------------------------------------- C13
\* A step in which token() returns Ok to r.
C13_Returned(r) == InAuthorize(r) /\ token[r] = None /\ IsSome(token'[r])

\* C13: whenever token() returns successfully the returned token is valid at
\* that moment, now < expiry of the token held in the cache, both when it
\* comes from the cache and when it has just been issued.
C13_ReturnedTokenValid ==
    [][\A r \in Reqs :
          C13_Returned(r) =>
              /\ IsSome(auth'.token)
              /\ Unwrap(auth'.token).token = Unwrap(token'[r])
              /\ now < Unwrap(auth'.token).expires_at]_vars

C13_ReturnStep ==
    \A r \in Reqs :
        C13_Returned(r) =>
            /\ IsSome(auth'.token)
            /\ Unwrap(auth'.token).token = Unwrap(token'[r])
            /\ now <= Unwrap(auth'.token).expires_at
            /\ pc[r] = "locked" => now < Unwrap(auth'.token).expires_at
            /\ \A res \in IssueResults :
                   (res.ok /\ IssueReturn(r, res)) =>
                       /\ Unwrap(auth'.token) = NewCachedToken(res)
                       /\ (now < Unwrap(auth'.token).expires_at
                              <=> res.expires_in # Some(0))

\* C13 (as amended): a token returned from the cache satisfies now < expiry;
\* a token returned right after its issuance is the cached one and satisfies
\* now <= expiry, with now < expiry exactly when expires_in is not 0.
C13_ValidUnlessZeroLifetime == [][C13_ReturnStep]_vars

\* C13 witness: token() returned a token it had just issued with
\* expires_in = 0, so the cached expiry is the present instant.
C13_Witness ==
    \E r \in Reqs :
        /\ pc[r] = "authorized" /\ issued[r] = 1 /\ IsSome(token[r])
        /\ IsSome(auth.token)
        /\ Unwrap(auth.token).token = Unwrap(token[r])
        /\ Unwrap(auth.token).expires_at = now

\* --------------------------------------------------------------------- C14
C14_NoCredentials(a) ==
    /\ a.client_id = None /\ a.client_secret = None /\ a.auth_url = None
    /\ a.token_url = None /\ a.audience = None /\ a.cert = None
    /\ a.cert_file = None /\ a.key = None /\ a.key_file = None

C14_OAuthShape(a) ==
    /\ IsSome(a.client_id) /\ IsSome(a.client_secret)
    /\ IsSome(a.auth_url) /\ IsSome(a.token_url)

C14_TlsShape(a) ==
    \/ IsSome(a.cert) /\ IsSome(a.key)
    \/ IsSome(a.cert_file) /\ IsSome(a.key_file)

\* The files of a --cert-file/--key-file shape that is used can be read.
C14_FilesReadable(a) ==
    (IsSome(a.cert) /\ IsSome(a.key)) \/
    (/\ IsSome(ReadFile(Unwrap(a.cert_file)))
     /\ IsSome(ReadFile(Unwrap(a.key_file))))

C14_Selected(kind) == startup' = "determined" /\ auth'.kind = kind
C14_Fatal == startup' = "aborted" /\ auth' = None

C14_SelectionStep ==
    startup = "parsed" /\ startup' # "parsed" =>
        LET a == Unwrap(args) IN
        /\ (C14_NoCredentials(a) <=> C14_Selected("None"))
        /\ (C14_OAuthShape(a) /\ ~C14_TlsShape(a)
                => C14_Selected("OAuthClientCredentials"))
        /\ (C14_TlsShape(a) /\ ~C14_OAuthShape(a) /\ C14_FilesReadable(a)
                => C14_Selected("Tls"))
        /\ (C14_Selected("OAuthClientCredentials") => C14_OAuthShape(a))
        /\ (C14_Selected("Tls") => C14_TlsShape(a))
        /\ (~C14_NoCredentials(a) /\ ~C14_OAuthShape(a) /\ ~C14_TlsShape(a)
                => C14_Fatal)
        /\ (C14_OAuthShape(a) /\ C14_TlsShape(a) => C14_Fatal)

\* C14: over all combinations of present/absent credential arguments, None
\* is selected iff no credential argument is given, OAuth iff the OAuth shape
\* is given, TLS iff a {cert, key} shape is given, and every combination that
\* satisfies none of the shapes, or more than one of them, is a fatal
\* configuration error with no mechanism selected.
C14_ShapeSelectsMechanism == [][C14_SelectionStep]_vars

\* With complete OAuth arguments next to a complete {cert, key} shape the
\* first matching arm wins: OAuth is selected and startup goes on.
C14_OAuthWinsOverTls ==
    [][startup = "parsed" /\ startup' # "parsed"
         /\ C14_OAuthShape(Unwrap(args)) /\ C14_TlsShape(Unwrap(args))
         => C14_Selected("OAuthClientCredentials")]_vars

\* Every startup that reaches "serving" is an initial state of Spec.
C14_StartupReachesInit ==
    startup = "serving" =>
        /\ auth \in AuthMechanisms
        /\ http_client = BuildClient(auth)
        /\ args = None

\* --------------------------------------------------------------------- C15
\* The mechanism with its cached token, if it has one, blanked out.
C15_Configuration(a) ==
    IF a.kind = "OAuthClientCredentials" THEN [a EXCEPT !.token = None] ELSE a

C15_FrameStep ==
    /\ auth'.kind = auth.kind
    /\ C15_Configuration(auth') = C15_Configuration(auth)
    /\ auth' # auth => /\ IsOAuth
                       /\ auth'.token # auth.token
                       /\ \E r \in Reqs : InAuthorize(r) /\ lock = r

\* C15: after any sequence of authorize calls by any number of concurrent
\* handlers the shared AuthMechanism is still the variant selected at startup
\* and all of its configuration fields have their startup values; the cached
\* token of the OAuth variant is the only field that ever changes.
C15_OnlyTokenChanges == [][C15_FrameStep]_vars

\* C15 witness: every handler has been through authorize, each one issued a
\* token of its own, and the cache holds a token.
C15_Witness ==
    /\ IsOAuth /\ IsSome(auth.token)
    /\ \A r \in Reqs : pc[r] \in {"authorized", "forwarding", "done"}
                         /\ issued[r] = 1 /\ IsSome(token[r])
    /\ \E r \in Reqs : Unwrap(token[r]) # Unwrap(auth.token).token

\* --------------------------------------------------------------------- C16
\* A step in which r leaves authorize_request.
C16_LeavesAuthorize(r) == InAuthorize(r) /\ ~InAuthorize(r)'

C16_NoneStep ==
    auth.kind = "None" =>
        /\ issued' = issued
        /\ \A r \in Reqs :
               /\ pc'[r] # "issuing"
               /\ C16_LeavesAuthorize(r) =>
                      /\ pc'[r] = "authorized"
                      /\ request'[r] = request[r]
                      /\ response'[r] = None /\ log'[r] = ""
               /\ IsSome(request[r]) /\ IsSome(request'[r]) =>
                      request'[r] = request[r]

\* C16: under the None mechanism authorize never fails, makes no issuance
\* call, and leaves the request (headers, method, URL, body) exactly as
\* composed.
C16_NoneIsNoop == [][C16_NoneStep]_vars

\* C16 witness: under None a POST with headers, a query and a body went
\* through authorize and is about to be sent as it was composed.
C16_Witness ==
    /\ auth.kind = "None" /\ IssueCalls = 0
    /\ \E r \in Reqs, i \in Inbound :
           /\ pc[r] = "authorized" /\ i.method = "POST" /\ path[r] = i.path
           /\ request[r] = Some([method |-> i.method,
                                 url |-> Destination(i.path),
                                 query |-> i.params, headers |-> i.headers,
                                 body |-> i.body])

\* --------------------------------------------------------------------- C17
C17_HeaderNames(req) == { req.headers[i].name : i \in 1..Len(req.headers) }

C17_TlsStep ==
    auth.kind = "Tls" =>
        /\ http_client.identity = Some([cert |-> auth.cert, key |-> auth.key])
        /\ http_client' = http_client
        /\ issued' = issued
        /\ \A r \in Reqs :
               /\ C16_LeavesAuthorize(r) =>
                      /\ pc'[r] = "authorized"
                      /\ request'[r] = request[r]
                      /\ response'[r] = None /\ log'[r] = ""
               /\ IsSome(request'[r]) =>
                      C17_HeaderNames(Unwrap(request'[r])) \cap
                          { <<"x-forwarded-client-cert">>,
                            <<"x-forwarded-client-key">> } = {}

C17_IdentityBoundAtStartup ==
    [][/\ http_client' # http_client => startup = "determined"
       /\ startup' = "serving" =>
             http_client' = [identity |->
                 IF auth.kind = "Tls"
                   THEN Some([cert |-> auth.cert, key |-> auth.key])
                   ELSE None]]_vars

\* --------------------------------------------------------------------- C18
C18_StoreStep ==
    \A r \in Reqs, res \in IssueResults :
        (res.ok /\ IssueReturn(r, res)) =>
            /\ IsSome(auth'.token)
            /\ Unwrap(auth'.token).token = res.access_token
            /\ res.expires_in = None =>
                   Unwrap(auth'.token).expires_at = now + 3600
            /\ \A d \in 0..MaxTime :
                   res.expires_in = Some(d) =>
                       Unwrap(auth'.token).expires_at = now + d

\* C18: when a successful issuance response omits expires_in, the token
\* stored in the cache has expiry equal to the issuance time plus 3600
\* seconds; when it carries expires_in = d, the stored expiry is the issuance
\* time plus d.
C18_StoredExpiry == [][C18_StoreStep]_vars

\* C18 witness: a token with an explicit expires_in was stored and has
\* expired, and the token stored after it, whose response omitted
\* expires_in, expires 3600 seconds from now.
C18_Witness ==
    /\ IsOAuth
    /\ IsSome(auth.token)
    /\ Unwrap(auth.token).expires_at = now + 3600
    /\ now > 0
    /\ \E r \in Reqs : /\ seen[r] = "expired" /\ issued[r] = 1
                       /\ pc[r] = "authorized"
                       /\ token[r] = Some(Unwrap(auth.token).token)

\* --------------------------------------------------------------------- C19
\* A step in which metrics() composes the request of r for a path whose
\* first segment is "metrics".
C19_Composed(r) ==
    /\ pc[r] = "idle" /\ pc'[r] = "waiting"
    /\ path'[r][1] = "metrics"

C19_Rest(r) == SubSeq(path'[r], 2, Len(path'[r]))
C19_Url(r) == Unwrap(request'[r]).url

\* C19: for a path whose first segment is `metrics`, with no further segments
\* the destination is exactly the configured endpoint; otherwise the
\* `metrics` segment is stripped and the remaining segments are appended, in
\* order, after the endpoint's own path segments.
C19_SegmentsAppended ==
    [][\A r \in Reqs :
          C19_Composed(r) =>
              IF Len(path'[r]) = 1
                THEN C19_Url(r) = endpoint
                ELSE C19_Url(r).segs = endpoint.segs \o C19_Rest(r)]_vars

C19_NoDots(parts) == SelectSeq(parts, LAMBDA x : x \notin {".", ".."})

C19_ComposeStep ==
    \A r \in Reqs :
        /\ C19_Composed(r) =>
               IF Len(path'[r]) = 1
                 THEN C19_Url(r) = endpoint
                 ELSE C19_Url(r).segs = endpoint.segs \o C19_NoDots(C19_Rest(r))
        /\ (pc[r] = "idle" /\ pc'[r] # "idle" /\ endpoint.valid
              /\ path'[r][1] = "metrics") => pc'[r] = "waiting"

\* C19 (as amended): as above, except that remaining segments equal to `.`
\* or `..` are dropped and the other ones are appended in order.
C19_SegmentsAppendedWithoutDots == [][C19_ComposeStep]_vars

\* C19 witness: "metrics/../sub" on an endpoint with the path "/suffix" was
\* composed into ".../suffix/sub".
C19_Witness ==
    /\ pc[1] = "waiting" /\ path[1] = <<"metrics", "..", "sub">>
    /\ endpoint.segs = <<"suffix">>
    /\ Unwrap(request[1]).url.segs = <<"suffix", "sub">>

\* The four assertions of test_construct_url.
C19_TestConstructUrl ==
    LET plain == [valid |-> TRUE, segs |-> <<>>]
        suffixed == [valid |-> TRUE, segs |-> <<"suffix">>]
    IN  /\ construct_url(plain, <<"metrics">>).segs = <<"metrics">>
        /\ construct_url(plain, <<"metrics", "sub", "path">>).segs
               = <<"metrics", "sub", "path">>
        /\ construct_url(suffixed, <<"metrics">>).segs = <<"suffix", "metrics">>
        /\ construct_url(suffixed, <<"metrics", "sub", "path">>).segs
               = <<"suffix", "metrics", "sub", "path">>

\* --------------------------------------------------------------------- C20
\* r has left metrics() with a response: 404, 500 or the mirrored one.
C20_Terminal(r) == pc[r] = "done" /\ IsSome(response[r])

\* Every exit from authorize, Ok, Err or panic, releases the lock.
C20_ReleaseStep ==
    \A r \in Reqs :
        /\ (InAuthorize(r) /\ ~InAuthorize(r)') => (lock = r /\ lock' = 0)
        /\ InAuthorize(r) => lock = r

\* C20: every handler that acquires the authorization lock releases it on
\* every path out of authorize; hence, under fair scheduling with every
\* issuance and upstream call returning, the lock is never held forever,
\* every waiting request eventually acquires it, and every request eventually
\* reaches a terminal state (404, 500 or mirrored response).
C20_EveryRequestTerminates ==
    /\ [][C20_ReleaseStep]_vars
    /\ \A r \in Reqs :
           /\ (lock = r) ~> (lock # r)
           /\ (pc[r] = "waiting") ~> (lock = r)
           /\ (pc[r] # "idle") ~> C20_Terminal(r)

\* The lock part of C20 on its own; a request ends with a response or, where
\* the handler panics, without one.
C20_LockAlwaysReleased ==
    /\ [][C20_ReleaseStep]_vars
    /\ \A r \in Reqs :
           /\ (lock = r) ~> (lock # r)
           /\ (pc[r] = "waiting") ~> (lock = r)
           /\ (pc[r] # "idle") ~> (C20_Terminal(r) \/ pc[r] = "panicked")

====
